---- MODULE Spec2Model ----
(***************************************************************************)
(* Model of the simulation cores of the terminal game collection:          *)
(*   src/src/snake.rs         the Snake engine and its loop (run_snake)    *)
(*   src/src/game_of_life.rs  the Life engine and its loop (run_gol)       *)
(*   src/src/cube.rs          the Cube engine and its loop (run_cube)      *)
(* Coordinates are small integers (the f64 values of the source are always *)
(* integral and far below 2^53, so f64 arithmetic on them is exact).       *)
(***************************************************************************)
EXTENDS Integers, Sequences, FiniteSets, TLC

VARIABLES
    cols, rows,        \* run_snake / run_gol: locals (cols, rows)
    pc,                \* position of the running loop
    key,               \* the key event read in this iteration ("none" if none)
    due,               \* last_tick.elapsed() has reached the tick interval
    snake,             \* run_snake: local snake (struct Snake)
    apple_coords,      \* run_snake: local apple_coords
    population,        \* run_gol: local population (struct Population)
    game,              \* run_gol: local game (struct Game)
    frame_rate,        \* run_gol: local frame_rate
    cube,              \* run_cube: local cube (the four scalars of struct Cube)
    size,              \* the terminal size (c, r) returned by size()
    g0, gens,          \* generation harness: the start grid and the steps taken
    advances,          \* run_gol: get_next_gen calls made in the current loop iteration
    elapsed            \* run_gol: the frame_rate values of the unpaused ticks since
                       \* construction or the last clear, added up without a width

vars == <<cols, rows, pc, key, due, snake, apple_coords, population, game,
          frame_rate, cube, size, g0, gens, advances, elapsed>>

(***************************************************************************)
(* Bounds of the model.                                                    *)
(***************************************************************************)
MaxSnakeCells == 6      \* the Snake grids have at most this many cells

Contains(seq, e) == \E i \in 1..Len(seq) : seq[i] = e

Cells(c, r) == {<<x, y>> : x \in 0..(c - 1), y \in 0..(r - 1)}

(***************************************************************************)
(* cube.rs.  Angles and speeds are counted in steps of 0.25 degrees (the   *)
(* only increment of the source; sums of such steps are exact in f64).     *)
(* The vertices and the edge list are never assigned after Cube::new.      *)
(***************************************************************************)
Cube_new == [theta |-> 0, theta_speed |-> 0, sigma |-> 0, sigma_speed |-> 0]

Cube_reset(cb) ==
    [cb EXCEPT !.theta = 0, !.theta_speed = 0, !.sigma = 0, !.sigma_speed = 0]

\* the engine that is not running: a fresh cube, and the terminal size that
\* gives the grid (cols, rows) = (c - 2, r - 5)
CubeIdle ==
    /\ cube = Cube_new
    /\ size = <<cols + 2, rows + 5>>

(***************************************************************************)
(* snake.rs                                                                *)
(***************************************************************************)
Directions == {"Left", "Right", "Up", "Down"}

NoApple == <<-1, -1>>     \* apple_coords not assigned (summon_apple has not returned)

\* a constructor that ignores the position it is given
Snake_new_origin(x, y) ==
    [body |-> <<(<<0, 0>>)>>, direction |-> "Idle", dead |-> FALSE,
     color |-> "LightCyan"]

Snake_new(x, y) ==
    [body |-> <<(<<x, y>>)>>, direction |-> "Idle", dead |-> FALSE,
     color |-> "LightCyan"]

\* the candidate head: the last body element moved by the direction's delta
Candidate(s) ==
    LET h == s.body[Len(s.body)] IN
    CASE s.direction = "Left"  -> <<h[1] - 1, h[2]>>
      [] s.direction = "Right" -> <<h[1] + 1, h[2]>>
      [] s.direction = "Up"    -> <<h[1], h[2] + 1>>
      [] s.direction = "Down"  -> <<h[1], h[2] - 1>>
      [] OTHER                 -> h

\* a collision test that forgets the body
Collides_walls_only(s, c, r) ==
    LET xy == Candidate(s) IN
       \/ ~(0 <= xy[1] /\ xy[1] < c)
       \/ ~(0 <= xy[2] /\ xy[2] < r)

\* a collision test that forgets the walls
Collides_body_only(s, c, r) == Contains(s.body, Candidate(s))

\* the condition of the if at snake.rs:57
Collides(s, c, r) ==
    LET xy == Candidate(s) IN
       \/ Contains(s.body, xy)
       \/ ~(0 <= xy[1] /\ xy[1] < c)
       \/ ~(0 <= xy[2] /\ xy[2] < r)

\* an update without the test of snake.rs:56
Snake_update_unguarded(s, c, r) ==
    LET hit == Collides(s, c, r) IN
    [body      |-> Append(Tail(s.body), Candidate(s)),
     direction |-> IF hit THEN "Idle" ELSE s.direction,
     dead      |-> IF hit THEN TRUE ELSE s.dead,
     color     |-> IF hit THEN "Red" ELSE s.color]

Snake_update(s, c, r) ==
    IF s.direction # "Idle"
    THEN LET hit == Collides(s, c, r) IN
         [body      |-> Append(Tail(s.body), Candidate(s)),
          direction |-> IF hit THEN "Idle" ELSE s.direction,
          dead      |-> IF hit THEN TRUE ELSE s.dead,
          color     |-> IF hit THEN "Red" ELSE s.color]
    ELSE s

Snake_go(s, direction) == [s EXCEPT !.direction = direction]

\* a summon_apple without the rejection loop
summon_apple_unchecked(s, c, r) == Cells(c, r)

\* the values summon_apple can return: the loop at snake.rs:78 leaves only
\* with a coordinate of the grid that is not in the body
summon_apple(s, c, r) == {a \in Cells(c, r) : ~Contains(s.body, a)}

snake_eats_apple(s, a) == Contains(s.body, a)

\* snake.rs:98-100, 145-146, 168-169: a new snake at the centre, then a new
\* apple; summon_apple never returns when the body covers the grid
NewGame(next) ==
    LET s == Snake_new(cols \div 2, rows \div 2) IN
    /\ snake' = s
    /\ IF summon_apple(s, cols, rows) = {}
       THEN apple_coords' = NoApple /\ pc' = "summon"
       ELSE apple_coords' \in summon_apple(s, cols, rows) /\ pc' = next

(***************************************************************************)
(* game_of_life.rs                                                         *)
(***************************************************************************)
MaxLifeCols == 3        \* the grids of the generation harness
MaxLifeRows == 3
MaxGens == 4            \* generations computed from one start grid

\* vec![vec![0; c]; r], indexed [y][x]
EmptyGrid(c, r) == [y \in 0..(r - 1) |-> [x \in 0..(c - 1) |-> 0]]

Grids(c, r) == [0..(r - 1) -> [0..(c - 1) -> {0, 1}]]

Population_new(c, r) ==
    [current_generation |-> EmptyGrid(c, r),
     dying_generation   |-> <<>>,
     ghost_generation   |-> <<>>,
     cols |-> c, rows |-> r]

Game_new(c, r) ==
    [running_time |-> 0, paused |-> TRUE, cols |-> c, rows |-> r,
     show_history |-> FALSE, cursor |-> [x |-> c \div 2, y |-> r \div 2]]

\* the offsets (i, j) in the order of the loops at game_of_life.rs:82-83
Offsets ==
    << <<-1, -1>>, <<-1, 0>>, <<-1, 1>>,
       <<0, -1>>,  <<0, 0>>,  <<0, 1>>,
       <<1, -1>>,  <<1, 0>>,  <<1, 1>> >>

\* the test at game_of_life.rs:87
CountedNeighbor(p, new_x, new_y) ==
    new_x > 0 /\ new_y > 0 /\ new_x < p.cols /\ new_y < p.rows

RECURSIVE AddNeighbors(_, _, _, _, _)
AddNeighbors(p, x, y, k, acc) ==
    IF k > Len(Offsets) THEN acc
    ELSE LET new_x == x + Offsets[k][1]
             new_y == y + Offsets[k][2]
         IN AddNeighbors(p, x, y, k + 1,
                IF CountedNeighbor(p, new_x, new_y)
                THEN acc + p.current_generation[new_y][new_x]
                ELSE acc)

\* game_of_life.rs:81-91: starts from -cell_state, then adds the nine cells
live_neighbors(p, x, y) ==
    AddNeighbors(p, x, y, 1, 0 - p.current_generation[y][x])

\* a rule that lets an alive cell with two neighbours die
NextCell_strict(cell_state, n) ==
    IF cell_state = 1 /\ n < 3 THEN 0
    ELSE IF cell_state = 1 /\ n > 3 THEN 0
    ELSE IF cell_state = 0 /\ n = 3 THEN 1
    ELSE cell_state

\* game_of_life.rs:93-108
NextCell(cell_state, n) ==
    IF cell_state = 1 /\ n < 2 THEN 0
    ELSE IF cell_state = 1 /\ n > 3 THEN 0
    ELSE IF cell_state = 0 /\ n = 3 THEN 1
    ELSE cell_state

\* game_of_life.rs:113-119: the alive cells as (x, y), row by row
AliveCoords(p) ==
    LET n == p.cols * p.rows
        all == [k \in 1..n |-> <<(k - 1) % p.cols, (k - 1) \div p.cols>>]
        alive(xy) == p.current_generation[xy[2]][xy[1]] = 1
    IN SelectSeq(all, alive)

\* a generation step that adds the alive cells to dying instead of replacing it
get_next_gen_merged(p) ==
    LET next_gen == [y \in 0..(p.rows - 1) |-> [x \in 0..(p.cols - 1) |->
                        NextCell(p.current_generation[y][x], live_neighbors(p, x, y))]]
    IN [p EXCEPT !.ghost_generation   = p.dying_generation,
                 !.dying_generation   = p.dying_generation \o AliveCoords(p),
                 !.current_generation = next_gen]

get_next_gen(p) ==
    LET next_gen == [y \in 0..(p.rows - 1) |-> [x \in 0..(p.cols - 1) |->
                        NextCell(p.current_generation[y][x], live_neighbors(p, x, y))]]
    IN [p EXCEPT !.ghost_generation   = p.dying_generation,
                 !.dying_generation   = AliveCoords(p),
                 !.current_generation = next_gen]

GridOf(c, r, alive) ==
    [y \in 0..(r - 1) |-> [x \in 0..(c - 1) |-> IF <<x, y>> \in alive THEN 1 ELSE 0]]

Glider == {<<1, 0>>, <<2, 1>>, <<0, 2>>, <<1, 2>>, <<2, 2>>}
GliderGrid == GridOf(5, 5, Glider)

LifeIdle ==
    /\ population = [current_generation |-> <<>>, dying_generation |-> <<>>,
                     ghost_generation |-> <<>>, cols |-> 0, rows |-> 0]
    /\ game = [running_time |-> 0, paused |-> TRUE, cols |-> 0, rows |-> 0,
               show_history |-> FALSE, cursor |-> [x |-> 0, y |-> 0]]
    /\ frame_rate = 0
    /\ g0 = <<>>
    /\ gens = 0
    /\ advances = 0
    /\ elapsed = 0

SnakeInit ==
    /\ cols \in 1..MaxSnakeCells
    /\ rows \in 1..MaxSnakeCells
    /\ cols * rows <= MaxSnakeCells
    /\ snake = Snake_new(cols \div 2, rows \div 2)
    /\ IF summon_apple(snake, cols, rows) = {}
       THEN apple_coords = NoApple /\ pc = "summon"
       ELSE apple_coords \in summon_apple(snake, cols, rows) /\ pc = "poll"
    /\ key = "none"
    /\ due = FALSE
    /\ LifeIdle
    /\ CubeIdle

SnakeFrame ==
    UNCHANGED <<cols, rows, population, game, frame_rate, cube, size, g0, gens,
                advances, elapsed>>

\* snake.rs:140: poll(timeout) returns false; the timeout is the time left
\* until the tick, so the tick is due afterwards
SnakePollTimeout ==
    /\ pc = "poll"
    /\ pc' = "update"
    /\ key' = "none"
    /\ due' = TRUE
    /\ UNCHANGED <<snake, apple_coords>>
    /\ SnakeFrame

\* snake.rs:143
SnakeQuit ==
    /\ pc = "poll"
    /\ key' = "q"
    /\ pc' = "done"
    /\ due' \in {due, TRUE}
    /\ UNCHANGED <<snake, apple_coords>>
    /\ SnakeFrame

\* snake.rs:144-147
SnakeReset ==
    /\ pc = "poll"
    /\ key' = "r"
    /\ due' \in {due, TRUE}
    /\ NewGame("update")
    /\ SnakeFrame

\* snake.rs:148-151
SnakeGo(d) ==
    /\ pc = "poll"
    /\ key' = d
    /\ pc' = "update"
    /\ due' \in {due, TRUE}
    /\ snake' = Snake_go(snake, d)
    /\ UNCHANGED apple_coords
    /\ SnakeFrame

\* snake.rs:152, and an event that is not a key (snake.rs:141)
SnakeOtherEvent ==
    /\ pc = "poll"
    /\ key' = "other"
    /\ pc' = "update"
    /\ due' \in {due, TRUE}
    /\ UNCHANGED <<snake, apple_coords>>
    /\ SnakeFrame

\* snake.rs:157 with the condition false
SnakeNoTick ==
    /\ pc = "update"
    /\ ~due
    /\ pc' = "poll"
    /\ key' = "none"
    /\ UNCHANGED <<due, snake, apple_coords>>
    /\ SnakeFrame

\* snake.rs:157-163, 174: a tick of a live snake
SnakeStep ==
    /\ pc = "update"
    /\ due
    /\ ~snake.dead
    /\ LET s == Snake_update(snake, cols, rows) IN
       IF snake_eats_apple(s, apple_coords)
       THEN LET grown == [s EXCEPT !.body = Append(s.body, apple_coords)] IN
            /\ snake' = grown
            /\ IF summon_apple(grown, cols, rows) = {}
               THEN /\ pc' = "summon"
                    /\ UNCHANGED <<apple_coords, due>>
               ELSE /\ apple_coords' \in summon_apple(grown, cols, rows)
                    /\ pc' = "poll"
                    /\ due' = FALSE
       ELSE /\ snake' = s
            /\ pc' = "poll"
            /\ due' = FALSE
            /\ UNCHANGED apple_coords
    /\ key' = "none"
    /\ SnakeFrame

\* snake.rs:164-166: a tick of a dead snake reads the next event (blocking)
SnakeDeadQuit ==
    /\ pc = "update"
    /\ due
    /\ snake.dead
    /\ pc' = "done"
    /\ key' = "q"
    /\ UNCHANGED <<snake, apple_coords, due>>
    /\ SnakeFrame

\* snake.rs:164, 167-170, 174
SnakeDeadReset ==
    /\ pc = "update"
    /\ due
    /\ snake.dead
    /\ NewGame("poll")
    /\ key' = "none"
    /\ due' = IF pc' = "summon" THEN due ELSE FALSE   \* line 174 is not reached
    /\ SnakeFrame

\* snake.rs:164, 171, 174
SnakeDeadOther ==
    /\ pc = "update"
    /\ due
    /\ snake.dead
    /\ pc' = "poll"
    /\ key' = "none"
    /\ due' = FALSE
    /\ UNCHANGED <<snake, apple_coords>>
    /\ SnakeFrame

SnakeNext ==
    \/ SnakePollTimeout
    \/ SnakeQuit
    \/ SnakeReset
    \/ \E d \in Directions : SnakeGo(d)
    \/ SnakeOtherEvent
    \/ SnakeNoTick
    \/ SnakeStep
    \/ SnakeDeadQuit
    \/ SnakeDeadReset
    \/ SnakeDeadOther

SpecSnake == SnakeInit /\ [][SnakeNext]_vars

MaxBlinkerSize == 6     \* the blinker is placed on grids from 5x5 up to this size

\* the three cells of a horizontal / vertical line with centre (cx, cy)
HLine(cx, cy) == {<<cx - 1, cy>>, <<cx, cy>>, <<cx + 1, cy>>}
VLine(cx, cy) == {<<cx, cy - 1>>, <<cx, cy>>, <<cx, cy + 1>>}

SnakeIdle ==
    /\ snake = Snake_new(0, 0)
    /\ apple_coords = NoApple

(***************************************************************************)
(* Generations: get_next_gen applied repeatedly to a start grid.  Every    *)
(* grid is a state of run_gol (the cursor reaches every cell and 's'       *)
(* toggles it) with dying and ghost still empty.                           *)
(***************************************************************************)
GenInit ==
    /\ \/ /\ cols \in 1..MaxLifeCols
          /\ rows \in 1..MaxLifeRows
          /\ g0 \in Grids(cols, rows)
       \/ /\ cols = 5
          /\ rows = 5
          /\ g0 = GliderGrid
       \/ /\ cols \in 5..MaxBlinkerSize
          /\ rows \in 5..MaxBlinkerSize
          /\ \E cx \in 2..(cols - 3), cy \in 2..(rows - 3) :
                g0 = GridOf(cols, rows, HLine(cx, cy))
    /\ population = [Population_new(cols, rows) EXCEPT !.current_generation = g0]
    /\ gens = 0
    /\ advances = 0
    /\ elapsed = 0
    /\ game = Game_new(cols, rows)
    /\ frame_rate = 400
    /\ pc = "gen"
    /\ key = "none"
    /\ due = FALSE
    /\ SnakeIdle
    /\ CubeIdle

GenStep ==
    /\ gens < MaxGens
    /\ population' = get_next_gen(population)
    /\ gens' = gens + 1
    /\ UNCHANGED <<cols, rows, pc, key, due, snake, apple_coords, game,
                   frame_rate, cube, size, g0, advances, elapsed>>

SpecGen == GenInit /\ [][GenStep]_vars

(***************************************************************************)
(* Life: properties of one generation                                      *)
(***************************************************************************)
\* the Moore neighbours of (x, y) that lie inside the grid
MooreNeighbors(c, r, x, y) ==
    {xy \in Cells(c, r) : xy # <<x, y>> /\ xy[1] - x \in -1..1 /\ xy[2] - y \in -1..1}

AliveAround(g, c, r, x, y) ==
    Cardinality({xy \in MooreNeighbors(c, r, x, y) : g[xy[2]][xy[1]] = 1})

Conway(cell, n) ==
    IF cell = 1 /\ n \in {2, 3} THEN 1
    ELSE IF cell = 0 /\ n = 3 THEN 1
    ELSE 0

ConwayStep(g, c, r) ==
    [y \in 0..(r - 1) |-> [x \in 0..(c - 1) |->
        Conway(g[y][x], AliveAround(g, c, r, x, y))]]

\* C1: one generation sets every cell to Conway's rule applied to the number
\* of its alive Moore neighbours inside the grid (0 <= coordinate < dimension).
C1_StepIsConway ==
    [][gens' = gens + 1 =>
          population'.current_generation =
              ConwayStep(population.current_generation, cols, rows)]_vars

\* C9: four generations of the glider on the 5x5 grid give the glider moved
\* by (1, 1) and nothing else.
C9_GliderMoves ==
    (g0 = GliderGrid /\ gens = 4) =>
        population.current_generation =
            GridOf(5, 5, {<<xy[1] + 1, xy[2] + 1>> : xy \in Glider})

\* the grids whose alive cells are exactly one 2x2 block
IsBlock(g, c, r) ==
    \E bx \in 0..(c - 2), by \in 0..(r - 2) :
        g = GridOf(c, r, {<<bx, by>>, <<bx + 1, by>>, <<bx, by + 1>>, <<bx + 1, by + 1>>})

\* C10: a 2x2 block in an otherwise dead grid, at any position, is unchanged
\* by one generation and by any number of generations.
C10_BlockIsStill ==
    IsBlock(g0, cols, rows) => population.current_generation = g0

\* the start grid is a horizontal line whose 3x3 box keeps off the border
IsBlinkerAt(cx, cy) ==
    /\ cx \in 2..(cols - 3)
    /\ cy \in 2..(rows - 3)
    /\ g0 = GridOf(cols, rows, HLine(cx, cy))

\* C11: a horizontal line of three alive cells away from the border becomes
\* the vertical line through the same centre after one generation and the
\* horizontal line again after two.
C11_BlinkerOscillates ==
    \A cx \in 0..cols, cy \in 0..rows :
        IsBlinkerAt(cx, cy) =>
           /\ (gens = 1 => population.current_generation
                               = GridOf(cols, rows, VLine(cx, cy)))
           /\ (gens = 2 => population.current_generation = g0)

\* two generations of a blinker have been computed
C11_Witness ==
    /\ gens = 2
    /\ \E cx \in 0..cols, cy \in 0..rows : IsBlinkerAt(cx, cy)
    /\ population.dying_generation # population.ghost_generation

(***************************************************************************)
(* run_gol: the Life loop.  An iteration is a poll step (at most one key   *)
(* event is handled) followed by an update step (the tick check).          *)
(***************************************************************************)
MaxLoopCells == 1       \* the Life loop runs on grids of at most this many cells
MaxRunningTime == 100   \* unpaused ticks stop when running_time would pass this

U16 == 65536
Overflow == -1          \* the addition panicked

\* a u16 addition: the sum, or on overflow a panic (overflow checks on) or the
\* wrapped sum (overflow checks off)
add_u16(a, b) == IF a + b < U16 THEN {a + b} ELSE {Overflow, (a + b) % U16}

\* game_of_life.rs:123-125; indexing outside the grid panics
switch(p, x, y) ==
    [p EXCEPT !.current_generation[y][x] = 1 - p.current_generation[y][x]]

\* a clear that forgets the history
kill_all_grid_only(p) ==
    [p EXCEPT !.current_generation = EmptyGrid(p.cols, p.rows)]

\* game_of_life.rs:127-131
kill_all(p) ==
    [p EXCEPT !.current_generation = EmptyGrid(p.cols, p.rows),
              !.dying_generation   = <<>>,
              !.ghost_generation   = <<>>]

LifeInit ==
    /\ cols \in 1..MaxLoopCells
    /\ rows \in 1..MaxLoopCells
    /\ cols * rows <= MaxLoopCells
    /\ population = Population_new(cols, rows)
    /\ game = Game_new(cols, rows)
    /\ frame_rate = 400
    /\ pc = "poll"
    /\ key = "none"
    /\ due = FALSE
    /\ g0 = EmptyGrid(cols, rows)
    /\ gens = 0
    /\ advances = 0
    /\ elapsed = 0
    /\ SnakeIdle
    /\ CubeIdle

LifeFrame == UNCHANGED <<cols, rows, snake, apple_coords, cube, size, g0, gens>>

\* a key event k is read at game_of_life.rs:156; the time that has passed
\* may or may not have reached frame_rate when the tick check is made
\* only 'n' calls get_next_gen before the tick check and only 'c' restarts
\* the clock: every other event starts the iteration with no call made
LifeKey(k) ==
    /\ pc = "poll"
    /\ key' = k
    /\ due' \in BOOLEAN
    /\ (k # "n" => advances' = 0)
    /\ (k # "c" => elapsed' = elapsed)
    /\ LifeFrame

\* game_of_life.rs:155: no event within the timeout
LifeNoEvent ==
    /\ LifeKey("none")
    /\ pc' = "update"
    /\ UNCHANGED <<population, game, frame_rate>>

\* game_of_life.rs:158
LifeQuit ==
    /\ LifeKey("q")
    /\ pc' = "done"
    /\ UNCHANGED <<population, game, frame_rate>>

\* game_of_life.rs:159
LifePause ==
    /\ LifeKey("p")
    /\ pc' = "update"
    /\ game' = [game EXCEPT !.paused = ~game.paused]
    /\ UNCHANGED <<population, frame_rate>>

\* game_of_life.rs:160
LifeHistory ==
    /\ LifeKey("h")
    /\ pc' = "update"
    /\ game' = [game EXCEPT !.show_history = ~game.show_history]
    /\ UNCHANGED <<population, frame_rate>>

\* a single step that does not look at the pause flag
LifeSingleStep_ungated ==
    /\ LifeKey("n")
    /\ pc' = "update"
    /\ population' = get_next_gen(population)
    /\ advances' = 1
    /\ UNCHANGED <<game, frame_rate>>

\* game_of_life.rs:161
LifeSingleStep ==
    /\ LifeKey("n")
    /\ pc' = "update"
    /\ IF game.paused
       THEN /\ population' = get_next_gen(population)
            /\ advances' = 1
       ELSE /\ UNCHANGED population
            /\ advances' = 0
    /\ UNCHANGED <<game, frame_rate>>

\* game_of_life.rs:162-166
LifeClear ==
    /\ LifeKey("c")
    /\ pc' = "update"
    /\ population' = kill_all(population)
    /\ game' = [game EXCEPT !.paused = TRUE, !.running_time = 0]
    /\ elapsed' = 0
    /\ UNCHANGED frame_rate

\* game_of_life.rs:167-170 ('s' and Enter): the index panics outside the grid
LifeSwitch ==
    /\ LifeKey("s")
    /\ IF game.cursor.x < population.cols /\ game.cursor.y < population.rows
       THEN /\ population' = switch(population, game.cursor.x, game.cursor.y)
            /\ pc' = "update"
       ELSE /\ pc' = "panic"
            /\ UNCHANGED population
    /\ UNCHANGED <<game, frame_rate>>

\* game_of_life.rs:171
LifeLeft ==
    /\ LifeKey("Left")
    /\ pc' = "update"
    /\ game' = IF game.cursor.x > 0
               THEN [game EXCEPT !.cursor.x = game.cursor.x - 1] ELSE game
    /\ UNCHANGED <<population, frame_rate>>

\* game_of_life.rs:172
LifeRight ==
    /\ LifeKey("Right")
    /\ pc' = "update"
    /\ game' = IF game.cursor.x < game.cols
               THEN [game EXCEPT !.cursor.x = game.cursor.x + 1] ELSE game
    /\ UNCHANGED <<population, frame_rate>>

\* game_of_life.rs:173
LifeUp ==
    /\ LifeKey("Up")
    /\ pc' = "update"
    /\ game' = IF game.cursor.y < game.rows
               THEN [game EXCEPT !.cursor.y = game.cursor.y + 1] ELSE game
    /\ UNCHANGED <<population, frame_rate>>

\* game_of_life.rs:174
LifeDown ==
    /\ LifeKey("Down")
    /\ pc' = "update"
    /\ game' = IF game.cursor.y > 0
               THEN [game EXCEPT !.cursor.y = game.cursor.y - 1] ELSE game
    /\ UNCHANGED <<population, frame_rate>>

\* game_of_life.rs:175
LifePlus ==
    /\ LifeKey("+")
    /\ pc' = "update"
    /\ frame_rate' = IF frame_rate < 1000 THEN frame_rate + 50 ELSE frame_rate
    /\ UNCHANGED <<population, game>>

\* game_of_life.rs:176
LifeMinus ==
    /\ LifeKey("-")
    /\ pc' = "update"
    /\ frame_rate' = IF frame_rate > 50 THEN frame_rate - 50 ELSE frame_rate
    /\ UNCHANGED <<population, game>>

\* game_of_life.rs:177, and an event that is not a key (game_of_life.rs:156)
LifeOtherEvent ==
    /\ LifeKey("other")
    /\ pc' = "update"
    /\ UNCHANGED <<population, game, frame_rate>>

\* game_of_life.rs:183 with the condition false
LifeNoTick ==
    /\ pc = "update"
    /\ ~due
    /\ pc' = "poll"
    /\ key' = "none"
    /\ UNCHANGED <<due, population, game, frame_rate, advances, elapsed>>
    /\ LifeFrame

\* game_of_life.rs:183-189; the u16 addition at line 186 panics on overflow
\* in a build with overflow checks and wraps in one without
\* (the tick is explored while the time ticked so far stays within cap)
LifeTickUpTo(cap) ==
    /\ pc = "update"
    /\ due
    /\ key' = "none"
    /\ due' = FALSE
    /\ IF game.paused
       THEN /\ pc' = "poll"
            /\ UNCHANGED <<population, game, advances, elapsed>>
       ELSE /\ elapsed + frame_rate <= cap
            /\ population' = get_next_gen(population)
            /\ advances' = advances + 1
            /\ elapsed' = elapsed + frame_rate
            /\ \E t \in add_u16(game.running_time, frame_rate) :
                  IF t = Overflow
                  THEN pc' = "panic" /\ UNCHANGED game
                  ELSE pc' = "poll" /\ game' = [game EXCEPT !.running_time = t]
    /\ UNCHANGED frame_rate
    /\ LifeFrame

LifeTick == LifeTickUpTo(MaxRunningTime)

LifeNext ==
    \/ LifeNoEvent
    \/ LifeQuit
    \/ LifePause
    \/ LifeHistory
    \/ LifeSingleStep
    \/ LifeClear
    \/ LifeSwitch
    \/ LifeLeft
    \/ LifeRight
    \/ LifeUp
    \/ LifeDown
    \/ LifePlus
    \/ LifeMinus
    \/ LifeOtherEvent
    \/ LifeNoTick
    \/ LifeTick

SpecLife == LifeInit /\ [][LifeNext]_vars

\* C4: the cursor stays inside the grid, so that toggling the cursor cell
\* always addresses a cell of the grid.
C4_CursorInGrid ==
    /\ 0 <= game.cursor.x /\ game.cursor.x < game.cols
    /\ 0 <= game.cursor.y /\ game.cursor.y < game.rows
    /\ pc # "panic"

(***************************************************************************)
(* run_cube: the Cube loop.  An iteration is the accumulation and the draw *)
(* at the top of the loop, a poll step and an update step.                 *)
(***************************************************************************)
MaxSpeed == 2           \* |theta_speed|, |sigma_speed| in steps of 0.25
MaxAngle == 4           \* |theta|, |sigma| in steps of 0.25

CubeInit ==
    /\ size \in {<<c, r>> : c \in 3..4, r \in 6..7}
    /\ cols = (size[1] - 2) * 2
    /\ rows = (size[2] - 5) * 3
    /\ cube = Cube_new
    /\ pc = "top"
    /\ key = "none"
    /\ due = FALSE
    /\ SnakeIdle
    /\ LifeIdle

CubeFrame ==
    UNCHANGED <<cols, rows, size, snake, apple_coords, population, game,
                frame_rate, g0, gens, advances, elapsed>>

\* cube.rs:103-126: the first two statements of every iteration, then the draw
CubeAccumulate ==
    /\ pc = "top"
    /\ cube.theta + cube.theta_speed \in -MaxAngle..MaxAngle
    /\ cube.sigma + cube.sigma_speed \in -MaxAngle..MaxAngle
    /\ cube' = [cube EXCEPT !.theta = cube.theta + cube.theta_speed,
                            !.sigma = cube.sigma + cube.sigma_speed]
    /\ pc' = "poll"
    /\ UNCHANGED <<key, due>>
    /\ CubeFrame

\* a key event k is read at cube.rs:135; the time that has passed may or may
\* not have reached the 400 ms of cube.rs:149
CubeKey(k) ==
    /\ pc = "poll"
    /\ key' = k
    /\ due' \in BOOLEAN
    /\ CubeFrame

\* cube.rs:134: no event within the timeout
CubeNoEvent ==
    /\ CubeKey("none")
    /\ pc' = "update"
    /\ UNCHANGED cube

\* cube.rs:137
CubeQuit ==
    /\ CubeKey("q")
    /\ pc' = "done"
    /\ UNCHANGED cube

\* cube.rs:138
CubeReset ==
    /\ CubeKey("r")
    /\ pc' = "update"
    /\ cube' = Cube_reset(cube)

\* cube.rs:139
CubeLeft ==
    /\ CubeKey("Left")
    /\ cube.sigma_speed < MaxSpeed
    /\ pc' = "update"
    /\ cube' = [cube EXCEPT !.sigma_speed = cube.sigma_speed + 1]

\* cube.rs:140
CubeRight ==
    /\ CubeKey("Right")
    /\ cube.sigma_speed > -MaxSpeed
    /\ pc' = "update"
    /\ cube' = [cube EXCEPT !.sigma_speed = cube.sigma_speed - 1]

\* cube.rs:141
CubeUp ==
    /\ CubeKey("Up")
    /\ cube.theta_speed < MaxSpeed
    /\ pc' = "update"
    /\ cube' = [cube EXCEPT !.theta_speed = cube.theta_speed + 1]

\* cube.rs:142
CubeDown ==
    /\ CubeKey("Down")
    /\ cube.theta_speed > -MaxSpeed
    /\ pc' = "update"
    /\ cube' = [cube EXCEPT !.theta_speed = cube.theta_speed - 1]

\* cube.rs:143, and an event that is not a key (cube.rs:135)
CubeOtherEvent ==
    /\ CubeKey("other")
    /\ pc' = "update"
    /\ UNCHANGED cube

\* cube.rs:149 with the condition false
CubeNoTick ==
    /\ pc = "update"
    /\ ~due
    /\ pc' = "top"
    /\ key' = "none"
    /\ UNCHANGED <<due, cube>>
    /\ CubeFrame

\* cube.rs:149-151: the tick only restarts the clock
CubeTick ==
    /\ pc = "update"
    /\ due
    /\ pc' = "top"
    /\ key' = "none"
    /\ due' = FALSE
    /\ UNCHANGED cube
    /\ CubeFrame

CubeNext ==
    \/ CubeAccumulate
    \/ CubeNoEvent
    \/ CubeQuit
    \/ CubeReset
    \/ CubeLeft
    \/ CubeRight
    \/ CubeUp
    \/ CubeDown
    \/ CubeOtherEvent
    \/ CubeNoTick
    \/ CubeTick

SpecCube == CubeInit /\ [][CubeNext]_vars

\* C12: theta and sigma are advanced by their speeds exactly once per tick
\* (the update step with the tick due); every other step of the loop, reset
\* excepted, leaves them unchanged.
C12_AdvanceOncePerTick ==
    [][/\ (pc = "update" /\ due) =>
             /\ cube'.theta = cube.theta + cube.theta_speed
             /\ cube'.sigma = cube.sigma + cube.sigma_speed
       /\ (~(pc = "update" /\ due) /\ ~(pc = "poll" /\ key' = "r")) =>
             /\ cube'.theta = cube.theta
             /\ cube'.sigma = cube.sigma]_vars

(***************************************************************************)
(* Construction: main.rs start_game calls run_gol, run_snake or run_cube,  *)
(* which reads the terminal size and builds its engine from it.            *)
(***************************************************************************)
MaxTermCols == 5        \* terminal sizes (c, r) with c <= MaxTermCols
MaxTermRows == 8        \*                        and r <= MaxTermRows

\* u16 subtraction and multiplication: the result, or on overflow a panic
\* (overflow checks on) or the wrapped result (overflow checks off)
sub_u16(a, b) == IF a >= b THEN {a - b} ELSE {Overflow, (a - b + U16) % U16}
mul_u16(a, b) == IF a * b < U16 THEN {a * b} ELSE {Overflow, (a * b) % U16}

Starts == {"start_gol", "start_snake", "start_cube"}

StartInit ==
    /\ pc \in Starts
    /\ size \in {<<c, r>> : c \in 0..MaxTermCols, r \in 0..MaxTermRows}
    /\ cols = 0
    /\ rows = 0
    /\ key = "none"
    /\ due = FALSE
    /\ cube = Cube_new
    /\ SnakeIdle
    /\ LifeIdle

\* (c - 2, r - 5) at snake.rs:95 and game_of_life.rs:138
Viewport(next) ==
    \E c2 \in sub_u16(size[1], 2), r5 \in sub_u16(size[2], 5) :
        IF c2 = Overflow \/ r5 = Overflow
        THEN pc' = "panic" /\ UNCHANGED <<cols, rows>>
        ELSE pc' = next /\ cols' = c2 /\ rows' = r5

\* snake.rs:94-95
SnakeViewport ==
    /\ pc = "start_snake"
    /\ Viewport("new_snake")
    /\ UNCHANGED <<key, due, snake, apple_coords>>
    /\ UNCHANGED <<population, game, frame_rate, cube, size, g0, gens,
                   advances, elapsed>>

\* snake.rs:98-102; gen_range panics on the empty range 0..0.  Grids wider
\* or higher than the terminal bounds (the wrapped ones) are not built.
SnakeConstruct ==
    /\ pc = "new_snake"
    /\ cols <= MaxTermCols /\ rows <= MaxTermRows
    /\ IF cols = 0 \/ rows = 0
       THEN pc' = "panic" /\ UNCHANGED <<snake, apple_coords>>
       ELSE NewGame("poll")
    /\ UNCHANGED <<key, due>>
    /\ SnakeFrame

\* game_of_life.rs:137-138
LifeViewport ==
    /\ pc = "start_gol"
    /\ Viewport("new_gol")
    /\ UNCHANGED <<key, due, population, game, frame_rate>>
    /\ UNCHANGED <<snake, apple_coords, cube, size, g0, gens, advances, elapsed>>

\* game_of_life.rs:139-144
LifeConstruct ==
    /\ pc = "new_gol"
    /\ cols <= MaxTermCols /\ rows <= MaxTermRows
    /\ population' = Population_new(cols, rows)
    /\ game' = Game_new(cols, rows)
    /\ frame_rate' = 400
    /\ pc' = "poll"
    /\ UNCHANGED <<key, due, advances, elapsed>>
    /\ LifeFrame

\* cube.rs:94-95: ((c - 2) * 2, (r - 5) * 3)
CubeViewport ==
    /\ pc = "start_cube"
    /\ \E c2 \in sub_u16(size[1], 2), r5 \in sub_u16(size[2], 5) :
          IF c2 = Overflow \/ r5 = Overflow
          THEN pc' = "panic" /\ UNCHANGED <<cols, rows>>
          ELSE \E c4 \in mul_u16(c2, 2), r15 \in mul_u16(r5, 3) :
                  IF c4 = Overflow \/ r15 = Overflow
                  THEN pc' = "panic" /\ UNCHANGED <<cols, rows>>
                  ELSE pc' = "new_cube" /\ cols' = c4 /\ rows' = r15
    /\ UNCHANGED <<key, due, cube, size>>
    /\ UNCHANGED <<snake, apple_coords, population, game, frame_rate, g0, gens,
                   advances, elapsed>>

\* cube.rs:96-100
CubeConstruct ==
    /\ pc = "new_cube"
    /\ cube' = Cube_new
    /\ pc' = "top"
    /\ UNCHANGED <<key, due>>
    /\ CubeFrame

StartNext ==
    \/ SnakeViewport
    \/ SnakeConstruct
    \/ LifeViewport
    \/ LifeConstruct
    \/ CubeViewport
    \/ CubeConstruct

SpecStart == StartInit /\ [][StartNext]_vars

\* the terminal leaves no column or no row for the grid
TooSmall == size[1] - 2 <= 0 \/ size[2] - 5 <= 0

\* C14: a construction from a viewport too small for a grid ends with the
\* InvalidViewport error: never with an engine, and never with a crash.
C14_InvalidViewport ==
    TooSmall => pc \in Starts \cup {"new_gol", "new_snake", "new_cube", "invalid_viewport"}

(***************************************************************************)
(* Snake: properties                                                       *)
(***************************************************************************)
Reverse(d) ==
    CASE d = "Left"  -> "Right"
      [] d = "Right" -> "Left"
      [] d = "Up"    -> "Down"
      [] d = "Down"  -> "Up"
      [] OTHER       -> "none"

InGrid(xy) == 0 <= xy[1] /\ xy[1] < cols /\ 0 <= xy[2] /\ xy[2] < rows

SnakeHead(s) == s.body[Len(s.body)]

\* a step of the loop that runs Snake::update on a moving snake
MovingTick == pc = "update" /\ due /\ ~snake.dead /\ snake.direction # "Idle"

\* C2: an arrow key that asks for the exact reverse of the stored direction
\* leaves the stored direction unchanged, and an idle snake accepts any
\* requested direction.
C2_ReverseIsRejected ==
    [][\A d \in Directions :
          (pc = "poll" /\ key' = d) =>
             /\ (snake.direction = Reverse(d) => snake'.direction = snake.direction)
             /\ (snake.direction = "Idle" => snake'.direction = d)]_vars

\* C3: in every reachable state the coordinates of the body are pairwise
\* distinct.
C3_BodyDistinct ==
    \A i, j \in 1..Len(snake.body) : i # j => snake.body[i] # snake.body[j]

\* C5: a step whose candidate head is in the body or outside the grid marks
\* the snake dead and leaves the body sequence as it was before the step.
C5_CollisionKeepsBody ==
    [][(MovingTick /\ Collides(snake, cols, rows)) =>
          (snake'.dead /\ snake'.body = snake.body)]_vars

\* C6: for a live, moving snake, a step whose candidate head is a body
\* coordinate sets dead and leaves the body length unchanged, and a step
\* whose candidate head is outside the grid sets dead.
C6_CollisionKills ==
    [][MovingTick =>
          /\ (Contains(snake.body, Candidate(snake)) =>
                 (snake'.dead /\ Len(snake'.body) = Len(snake.body)))
          /\ (~InGrid(Candidate(snake)) => snake'.dead)]_vars

\* a snake of at least two segments that has just died by running into its
\* own body (its head is inside the grid)
C6_Witness ==
    /\ pc = "poll"
    /\ snake.dead
    /\ Len(snake.body) >= 2
    /\ InGrid(SnakeHead(snake))

\* C7: a step whose candidate head is the food coordinate appends the
\* candidate head once and keeps the tail.
C7_EatAppendsHead ==
    [][(MovingTick /\ ~Collides(snake, cols, rows)
          /\ Candidate(snake) = apple_coords) =>
          snake'.body = Append(snake.body, Candidate(snake))]_vars

\* C8: at the end of every loop iteration the food coordinate is inside the
\* grid and is not an element of the body.
C8_AppleFree ==
    pc = "poll" =>
       (InGrid(apple_coords) /\ ~Contains(snake.body, apple_coords))

\* the iteration in which the snake has just grown (the head is stored twice)
\* and a new apple has been placed
C8_Witness ==
    /\ pc = "poll"
    /\ Len(snake.body) >= 3
    /\ snake.body[Len(snake.body)] = snake.body[Len(snake.body) - 1]
    /\ ~snake.dead
    /\ InGrid(apple_coords)

\* the steps of the Snake loop that need no input event
SnakeStepWithoutInput == SnakePollTimeout \/ SnakeNoTick \/ SnakeStep

\* C13: waiting for input is bounded: wherever the loop stands, it can go on
\* to its next step without a key event arriving.
C13_NeverBlocksOnInput ==
    pc \in {"poll", "update"} => ENABLED SnakeStepWithoutInput

\* C15: while the snake is not dead every body coordinate is inside the grid.
C15_AliveBodyInGrid ==
    ~snake.dead => \A i \in 1..Len(snake.body) : InGrid(snake.body[i])

\* a live snake of three or more segments whose head is on the last column
C15_Witness ==
    /\ ~snake.dead
    /\ Len(snake.body) >= 3
    /\ SnakeHead(snake)[1] = cols - 1
    /\ snake.direction = "Right"

Centre == <<cols \div 2, rows \div 2>>

\* C16: a dead snake stays dead with the same body under every tick and
\* every key event but reset; a step that ends with dead = FALSE is a reset
\* and gives a one-segment body at the centre with direction idle.
C16_DeadUntilReset ==
    [][snake.dead =>
          /\ (pc = "poll" /\ key' # "r") =>
                (snake'.dead /\ snake'.body = snake.body)
          /\ snake'.dead => snake'.body = snake.body
          /\ ~snake'.dead =>
                /\ (pc = "poll" /\ key' = "r") \/ (pc = "update" /\ due)
                /\ snake'.body = <<Centre>>
                /\ snake'.direction = "Idle"]_vars

\* a dead snake of two or more segments for which an arrow key has just been
\* handled
C16_Witness ==
    /\ snake.dead
    /\ Len(snake.body) >= 2
    /\ pc = "update"
    /\ key \in Directions
    /\ Centre # <<0, 0>>

\* C17: a tick with the stored direction idle leaves the body, the dead flag
\* and the food coordinate unchanged (for a dead snake the tick is the
\* blocking read, which changes them only by a reset).
C17_IdleTickChangesNothing ==
    [][(pc = "update" /\ due /\ snake.direction = "Idle") =>
          \/ /\ snake'.body = snake.body
             /\ snake'.dead = snake.dead
             /\ apple_coords' = apple_coords
          \/ /\ snake.dead
             /\ snake' = Snake_new(Centre[1], Centre[2])]_vars

\* a tick is due for a live snake that stands still
C17_Witness ==
    /\ pc = "update"
    /\ due
    /\ ~snake.dead
    /\ snake.direction = "Idle"
    /\ key = "other"

(***************************************************************************)
(* Life loop: properties                                                   *)
(***************************************************************************)
AliveSet(p) == {xy \in Cells(p.cols, p.rows) : p.current_generation[xy[2]][xy[1]] = 1}

SeqSet(q) == {q[i] : i \in 1..Len(q)}

\* the steps of the loop that compute a generation: 'n' while paused and the
\* tick while running
LifeAdvance ==
    \/ pc = "poll" /\ key' = "n" /\ game.paused
    \/ pc = "update" /\ due /\ ~game.paused

CursorInGrid == game.cursor.x < population.cols /\ game.cursor.y < population.rows

\* C18: a generation step sets dying to exactly the cells alive before the
\* step and ghost to the dying of before the step; a toggle of the cursor
\* cell changes neither.
C18_HistoryOverwritten ==
    [][/\ LifeAdvance =>
             /\ SeqSet(population'.dying_generation) = AliveSet(population)
             /\ Len(population'.dying_generation) = Cardinality(AliveSet(population))
             /\ population'.ghost_generation = population.dying_generation
       /\ (pc = "poll" /\ key' = "s") =>
             /\ population'.dying_generation = population.dying_generation
             /\ population'.ghost_generation = population.ghost_generation]_vars

\* after two generations ghost holds a cell that dying has lost, and a
\* toggle has just been handled
C18_Witness ==
    /\ pc = "update"
    /\ key = "s"
    /\ population.ghost_generation # <<>>
    /\ population.dying_generation = <<>>
    /\ AliveSet(population) # {}

C20_Clear ==
    [][(pc = "poll" /\ key' = "c") =>
          /\ AliveSet(population') = {}
          /\ population'.dying_generation = <<>>
          /\ population'.ghost_generation = <<>>
          /\ game'.paused
          /\ game'.running_time = 0
          /\ game'.cursor = game.cursor
          /\ <<population'.cols, population'.rows>> = <<population.cols, population.rows>>
          /\ <<game'.cols, game'.rows>> = <<game.cols, game.rows>>
          /\ DOMAIN population'.current_generation = DOMAIN population.current_generation
      ]_vars

\* a clear has just been handled with the cursor moved off its start cell
C20_Witness ==
    /\ pc = "update"
    /\ key = "c"
    /\ game.cursor.x # game.cols \div 2
    /\ game.paused
    /\ game.running_time = 0

\* C21: in one iteration of the Life loop get_next_gen is called at most
\* once, whatever event the iteration reads (a single step or a pause toggle
\* read in the iteration of a tick does not add a second call), and an
\* iteration whose tick check succeeds while the game is not paused makes
\* exactly one call
C21_OneAdvancePerIteration ==
    [][/\ advances' <= 1
       /\ (pc = "update" /\ due /\ ~game.paused => advances' = 1)]_vars

\* a single step has been taken and the tick check of the same iteration
\* is about to succeed
C21_Witness ==
    /\ pc = "update"
    /\ key = "n"
    /\ due
    /\ advances = 1

\* ------------------------------------------------------------------------
\* The clock of the Life loop: run_gol with the events that reach
\* running_time (pause, clear, the two speed keys, quit and no event), run
\* until the ticked time passes the 16-bit range
\* ------------------------------------------------------------------------

MaxElapsed == 66000

FrameRates == {50 * k : k \in 1..20}

TimerTick == LifeTickUpTo(MaxElapsed)

TimerNext ==
    \/ LifeNoEvent
    \/ LifeQuit
    \/ LifePause
    \/ LifeClear
    \/ LifePlus
    \/ LifeMinus
    \/ LifeNoTick
    \/ TimerTick

SpecTimer == LifeInit /\ [][TimerNext]_vars

\* C22: running_time is always the sum of the frame_rate values (each one of
\* 50, 100, ..., 1000) of the unpaused ticks since construction or the last
\* clear, and the 16-bit addition never overflows or wraps around
C22_TimerIsSum ==
    /\ frame_rate \in FrameRates
    /\ pc # "panic"
    /\ game.running_time = elapsed

============================================================================
